---------------------------- MODULE Spec2Model ----------------------------
(***************************************************************************)
(* Chain-merging engine of cstrd (src/lib/merge_chains.py).                *)
(*                                                                         *)
(* Chains are python objects; here an object is a handle in Handles and    *)
(* `chain' maps a handle to the object's fields.  A node is a position     *)
(* (angle, radial_distance) owned by one chain: chain[h].r[a] is the       *)
(* radial distance of h's node on ray a, or NoNode.  Angles are ray        *)
(* indices 0..Nr-1; ray a stands for the angle a*360/Nr degrees.           *)
(*                                                                         *)
(* lib.chain, lib.interpolation_nodes and lib.basic_properties are not     *)
(* part of the sources at hand; the operators that stand for them are      *)
(* written from the specification's description of those collaborators.    *)
(***************************************************************************)
EXTENDS Integers, Sequences, FiniteSets, TLC

(* ------------------------------ bounds --------------------------------- *)
\* number of rays of the disk (the nr argument of merge_chains)
Nr == 16
\* number of partial chains (arcs) of the input, besides center and border
NumArcs == 3
\* radial levels on which the arcs of the input lie
NumLevels == 2

(* ------------------------- program constants --------------------------- *)
\* ConnectParameters.iterations
iterations == 9
\* ConnectParameters.params['neighbourhood_size'], in degrees
neighbourhood_size_table == <<10, 10, 22, 22, 45, 45, 22, 45, 45>>
\* np.arange(0, 360, 360 / Nr)
FullCircle == 360
\* threshold = 0.9 of the closing pass, as ThresholdNum / ThresholdDen
ThresholdNum == 9
ThresholdDen == 10
\* NOT_REPEATING_CHAIN and the -1 of connectivity_goodness_condition
NoDistance == -1

Angles == 0 .. (Nr - 1)
NoNode == -1
None == 0
Arcs == 1 .. NumArcs
CenterH == NumArcs + 1
BorderH == NumArcs + 2
Handles == 1 .. (NumArcs + 2)
\* radial distance of the center chain, of level v, and of the border chain
CenterR == 0
BorderR == NumLevels + 1

VARIABLES
  chain,        \* handle -> [id, type, r, size, extA, extB, A_outward, A_inward,
                \*            B_outward, B_inward]
  l_ch_s,       \* live chain list (state.l_ch_s / ch_s_without_border between passes)
  l_nodes_s,    \* node collection (state.l_nodes_s), as a set of <<angle, radius>>
  M,            \* intersection matrix, M[i][j] for i, j in 0..dim-1
  counter,      \* index i of the schedule row (for i in range(iterations))
  pc,           \* position of the control flow
  ch_i,         \* current support chain (None before the first selection)
  l_s_outward,  \* outward candidate list of the support chain
  l_s_inward,   \* inward candidate list of the support chain
  location,     \* "inwards" | "outwards": which list is being scanned
  j_pointer,    \* 0-based pointer into the scanned list
  next_chain_index,
  iterations_since_last_change,
  size_l_chain_init,
  close_idx,    \* 0-based position of the for loop of the closing pass
  sim,          \* regime of the external similarity test
  input,        \* the chains as deep-copied from the caller (never changed)
  debug,        \* the debug flag handed to merge_chains (state.debug)
  state_counter, \* state.counter, the number in the names of the debug images
  supports,     \* the support chains selected since the last merge of the pass (history)
  attempted,    \* the chains taken as ch_j in the scan of the current list (history)
  last          \* record of the last operation performed (history)

vars == <<chain, l_ch_s, l_nodes_s, M, counter, pc, ch_i, l_s_outward, l_s_inward,
          location, j_pointer, next_chain_index, iterations_since_last_change,
          size_l_chain_init, close_idx, sim, input, debug, state_counter, supports,
          attempted, last>>

(* ----------------------------- sequences ------------------------------- *)
\* F applied to the value of v (v is evaluated once and then bound)
With(v, F(_)) == CHOOSE y \in {F(x) : x \in {v}} : TRUE

Range(s) == {s[x] : x \in DOMAIN s}

\* list.index(x), 1-based; 0 when absent
IndexOf(s, x) ==
  IF \E p \in DOMAIN s : s[p] = x
    THEN CHOOSE p \in DOMAIN s : s[p] = x /\ \A q \in 1 .. (p - 1) : s[q] # x
    ELSE 0

\* del s[p]
RemoveAt(s, p) == [q \in 1 .. (Len(s) - 1) |-> IF q < p THEN s[q] ELSE s[q + 1]]

Filter(s, Keep(_)) == SelectSeq(s, Keep)

\* list.sort(key=...) / sorted(...): a stable ascending sort of the items
\* <<key1, key2, value>> by key1, then key2 (equal keys keep their order):
\* an item goes to the place numbered by the items that come before it
ComesBefore(s, q, p) ==
  \/ s[q][1] < s[p][1]
  \/ s[q][1] = s[p][1] /\ s[q][2] < s[p][2]
  \/ s[q][1] = s[p][1] /\ s[q][2] = s[p][2] /\ q < p

StableSort(s) ==
  [place \in DOMAIN s |->
     s[CHOOSE p \in DOMAIN s :
         Cardinality({q \in DOMAIN s : ComesBefore(s, q, p)}) = place - 1]]

Values(s) == [p \in DOMAIN s |-> s[p][3]]

(* ---------------------- the chain model (lib.chain) -------------------- *)
Prev(a) == (a + Nr - 1) % Nr
Succ(a) == (a + 1) % Nr
\* Chain.get_dot_angle_values
Dom(c) == {a \in Angles : c.r[a] # NoNode}
\* the angularly first node of the nodes r (angle 0 on a closed chain)
FirstAngle(r) ==
  IF \A a \in Angles : r[a] # NoNode THEN 0
  ELSE IF \A a \in Angles : r[a] = NoNode THEN 0
  ELSE CHOOSE a \in Angles : /\ r[a] # NoNode /\ r[Prev(a)] = NoNode
         /\ \A b \in 0 .. (a - 1) : ~(r[b] # NoNode /\ r[Prev(b)] = NoNode)
\* the angularly last node of the nodes r (the last ray on a closed chain)
LastAngle(r) ==
  IF \A a \in Angles : r[a] # NoNode THEN Nr - 1
  ELSE IF \A a \in Angles : r[a] = NoNode THEN Nr - 1
  ELSE CHOOSE a \in Angles : /\ r[a] # NoNode /\ r[Succ(a)] = NoNode
         /\ \A b \in 0 .. (a - 1) : ~(r[b] # NoNode /\ r[Succ(b)] = NoNode)

\* Chain(...) followed by add_nodes_list: size (the number of nodes), extA
\* and extB are attributes the chain keeps up to date
NewChain(id, type, r) ==
  [id |-> id, type |-> type, r |-> r,
   size |-> Cardinality({a \in Angles : r[a] # NoNode}),
   extA |-> FirstAngle(r), extB |-> LastAngle(r),
   A_outward |-> None, A_inward |-> None, B_outward |-> None, B_inward |-> None]

\* the nodes of c as a list of <<angle, radius>>, by angle
NodeList(c) ==
  Filter([p \in 1 .. Nr |-> <<p - 1, c.r[p - 1]>>], LAMBDA node : node[2] # NoNode)

\* the nodes r after the nodes of the list joined them
NodesAfter(r, nodes) ==
  [a \in Angles |->
     IF \E t \in DOMAIN nodes : nodes[t][1] = a
       THEN nodes[CHOOSE t \in DOMAIN nodes : nodes[t][1] = a][2]
       ELSE r[a]]

\* Chain.add_nodes_list: the nodes <<angle, radius>> join the chain, its size
\* grows by their number and its endpoints are recomputed
add_nodes_list(c, nodes) ==
  With(NodesAfter(c.r, nodes), LAMBDA r :
    [c EXCEPT !.r = r, !.size = c.size + Len(nodes),
              !.extA = FirstAngle(r), !.extB = LastAngle(r)])

EndAngle(c, endpoint) == IF endpoint = "A" THEN c.extA ELSE c.extB
Opposite(endpoint) == IF endpoint = "A" THEN "B" ELSE "A"

\* get_chain_from_list_by_id: the first chain of the list carrying the id
ChainById(C, L, id) ==
  IF \E p \in DOMAIN L : C[L[p]].id = id
    THEN L[CHOOSE p \in DOMAIN L : C[L[p]].id = id
                      /\ \A q \in 1 .. (p - 1) : C[L[q]].id # id]
    ELSE None

\* get_chains_within_angle
ChainsWithinAngle(C, L, a) == Filter(L, LAMBDA h : C[h].r[a] # NoNode)

\* euclidean_distance_between_nodes, squared and scaled by Nr^2: with m the
\* number of rays between the nodes, (r1-r2)^2 + 4 r1 r2 sin^2(pi m / Nr), the
\* sine squared taken as 4 m (Nr - m) / Nr^2
EuclidSq(a1, r1, a2, r2) ==
  (r1 - r2) * (r1 - r2) * Nr * Nr
    + 16 * r1 * r2 * ((a1 - a2 + Nr) % Nr) * (Nr - ((a1 - a2 + Nr) % Nr))

EndDist(c1, e1, c2, e2) ==
  EuclidSq(EndAngle(c1, e1), c1.r[EndAngle(c1, e1)],
           EndAngle(c2, e2), c2.r[EndAngle(c2, e2)])

Min2(x, y) == IF x <= y THEN x ELSE y
Abs(x) == IF x < 0 THEN 0 - x ELSE x

\* minimum_euclidean_distance_between_chains_endpoints
MinEndDist(c1, c2) ==
  Min2(Min2(EndDist(c1, "A", c2, "A"), EndDist(c1, "A", c2, "B")),
       Min2(EndDist(c1, "B", c2, "A"), EndDist(c1, "B", c2, "B")))

\* angular_distance_between_chains, in rays: from ch_j's endpoint to the
\* candidate's opposite endpoint, in the direction the endpoint looks at
AngularSteps(cj, ck, endpoint) ==
  IF endpoint = "B" THEN (ck.extA - cj.extB + Nr) % Nr
  ELSE (cj.extA - ck.extB + Nr) % Nr

(* ------------- neighbour references (lines 209-222, 908-940) ----------- *)
\* the chain of the list owning the node next to radius rho on ray a, toward
\* the center (dir = -1) or away from it (dir = 1); None without such a node
NextOnRay(C, L, a, rho, dir) ==
  LET side == {p \in DOMAIN L : C[L[p]].r[a] # NoNode /\ dir * (C[L[p]].r[a] - rho) > 0}
  IN  IF side = {} THEN None
      ELSE ChainById(C, L,
             C[L[CHOOSE p \in side : \A q \in side :
                    dir * (C[L[q]].r[a] - C[L[p]].r[a]) >= 0]].id)

\* get_inward_and_outward_visible_chains: <<inward, outward>>
get_inward_and_outward_visible_chains(C, L, h, endpoint) ==
  IF ~\E p \in DOMAIN L : C[L[p]].id = C[h].id /\ C[L[p]].r[EndAngle(C[h], endpoint)] # NoNode
    THEN <<None, None>>
  ELSE << NextOnRay(C, L, EndAngle(C[h], endpoint), C[h].r[EndAngle(C[h], endpoint)], -1),
          NextOnRay(C, L, EndAngle(C[h], endpoint), C[h].r[EndAngle(C[h], endpoint)], 1) >>

\* SystemStatus.update_chain_neighbourhood: the four references of every
\* chain of `todo' are recomputed (a reference is computed from node
\* positions and ids only, so the order of the chains does not matter)
update_chain_neighbourhood(C, L, todo) ==
  [h \in DOMAIN C |->
     IF h \in Range(todo)
       THEN [C[h] EXCEPT
               !.A_inward = get_inward_and_outward_visible_chains(C, L, h, "A")[1],
               !.A_outward = get_inward_and_outward_visible_chains(C, L, h, "A")[2],
               !.B_inward = get_inward_and_outward_visible_chains(C, L, h, "B")[1],
               !.B_outward = get_inward_and_outward_visible_chains(C, L, h, "B")[2]]
       ELSE C[h]]

\* sorted(l_ch_s, key=size, reverse=True)
SortBySize(C, L) == Values(StableSort([p \in DOMAIN L |-> <<0 - C[L[p]].size, 0, L[p]>>]))

(* ---------------- intersection matrix (lines 968-991) ------------------ *)
MaxOf(S) == CHOOSE x \in S : \A y \in S : y <= x
Dim(m) == Cardinality(DOMAIN m)

\* compute_intersection_matrix over the nodes of the chains in H: np.eye of
\* dimension max id + 1, then 1 for every two chain ids met on a common ray
compute_intersection_matrix(C, H) ==
  With(MaxOf({C[h].id : h \in H}) + 1, LAMBDA d :
  With([a \in Angles |-> {C[h].id : h \in {g \in H : C[g].r[a] # NoNode}}], LAMBDA idsAt :
    [x \in 0 .. (d - 1) |-> [y \in 0 .. (d - 1) |->
       IF x = y \/ \E a \in Angles : x \in idsAt[a] /\ y \in idsAt[a] THEN 1 ELSE 0]]))

(* ------------------------------ input ---------------------------------- *)
FullRing(rho) == [a \in Angles |-> rho]
ArcNodes(start, len, rho) ==
  [a \in Angles |-> IF (a - start + Nr) % Nr < len THEN rho ELSE NoNode]

\* lengths, levels and gaps of the arcs laid out around the disk: arc 1
\* starts at ray 0 and every other arc starts `gap' rays after the end of the
\* arc before it, a gap of -g being an overlap of g rays
LongArc == Nr - 1
\* the length that lets arcs of 4 rays, one ray apart, leave one ray free
FillingArc == Nr - 1 - 5 * (NumArcs - 1)
\* the lengths of two arcs that, one ray apart, meet again on one ray
HalfArc == Nr \div 2
ArcLenProfile(first, second, final) ==
  [t \in Arcs |-> IF t = 1 THEN first ELSE IF t = NumArcs THEN final
                  ELSE IF t = 2 THEN second ELSE 4]
\* the length of an arc that, joined with an arc of two rays across one free
\* ray, leaves one more ray free
WideArc == Nr - 4
\* a chain of one node
SingleNode == 1
ArcLenProfiles ==
  {ArcLenProfile(first, 4, final) :
     first \in {4, LongArc}, final \in {3} \cup ({FillingArc} \cap (3 .. LongArc))}
    \cup {ArcLenProfile(HalfArc + 1, HalfArc - 1, 3)}
    \cup {ArcLenProfile(WideArc, 2, 3)}
    \cup {ArcLenProfile(4, SingleNode, 3)}
ArcLevels(t) == IF t = 1 THEN {1} ELSE 1 .. NumLevels
ArcGaps == {-3, -1, 0, 1, 2}

NodesOf(C, H) == {<<a, C[h].r[a]>> : a \in Angles, h \in H} \ {<<a, NoNode>> : a \in Angles}

SimRegimes == {"free", "accept", "reject"}

\* the chains handed to merge_chains: the arcs t (id t - 1) of lengths len[t]
\* on levels lev[t], separated by gap[t] rays, then the center chain and the
\* border chain, which carries the largest id
InputChains(len, lev, gap) ==
  LET start[t \in Arcs] ==
        IF t = 1 THEN 0 ELSE (start[t - 1] + len[t - 1] + gap[t - 1] + Nr) % Nr
  IN  [h \in Handles |->
         IF h = CenterH THEN NewChain(NumArcs, "center", FullRing(CenterR))
         ELSE IF h = BorderH THEN NewChain(NumArcs + 1, "border", FullRing(BorderR))
         ELSE NewChain(h - 1, "normal", ArcNodes(start[h], len[h], lev[h]))]

\* no two nodes share a position
ValidInput(C0) ==
  \A t, u \in Arcs : \A a \in Angles :
     t # u /\ C0[t].r[a] # NoNode => C0[t].r[a] # C0[u].r[a]

\* a slip: the chains are not copied, the caller's objects are worked on
copy_chains_and_nodes_same_objects(C) == [fresh |-> FALSE, ch_s |-> C]

\* copy_chains_and_nodes: ch.copy_chain gives a new object, with the fields
\* of the caller's, for every chain (fresh: no object is shared with the
\* caller)
copy_chains_and_nodes(C) == [fresh |-> TRUE, ch_s |-> C]

\* the caller's chains once the chains worked on have become C1: they move
\* with them only when they are the same objects
CallerView(C0, C1) == IF copy_chains_and_nodes(C0).fresh THEN C0 ELSE C1

\* merge_chains lines 96-101: copy_chains_and_nodes, ConnectParameters
\* (extract_border_chain_from_list) and compute_intersection_matrix
InitRun(C0, regime, debug_flag) ==
  /\ debug = debug_flag
  /\ state_counter = 0
  /\ supports = <<>>
  /\ attempted = {}
  /\ chain = copy_chains_and_nodes(C0).ch_s
  /\ input = C0
  /\ l_ch_s = [p \in 1 .. (NumArcs + 1) |-> p]
  /\ l_nodes_s = NodesOf(C0, Handles \ {BorderH})
  /\ M = compute_intersection_matrix(C0, Handles)
  /\ counter = 0
  /\ pc = "start"
  /\ ch_i = None
  /\ l_s_outward = <<>>
  /\ l_s_inward = <<>>
  /\ location = "inwards"
  /\ j_pointer = 0
  /\ next_chain_index = 0
  /\ iterations_since_last_change = 0
  /\ size_l_chain_init = 0
  /\ close_idx = 0
  /\ sim = regime
  /\ last = [op |-> "init"]

\* a run without debug images
InitWith(C0, regime) == InitRun(C0, regime, FALSE)

Inputs ==
  {C0 \in {InputChains(len, lev, gap) :
             len \in ArcLenProfiles,
             lev \in {f \in [Arcs -> 1 .. NumLevels] : \A t \in Arcs : f[t] \in ArcLevels(t)},
             gap \in [1 .. (NumArcs - 1) -> ArcGaps]} : ValidInput(C0)}

\* extract_border_chain_from_list: the chain of type border among the chains
\* H; next(...) raises StopIteration when there is none (None here)
extract_border_chain_from_list(C, H) ==
  IF \E h \in H : C[h].type = "border"
    THEN CHOOSE h \in H : C[h].type = "border"
    ELSE None

\* merge_chains called with an empty chain list: copy_chains_and_nodes gives
\* two empty lists and ConnectParameters looks for the border chain (the
\* similarity test is never asked)
InitEmpty ==
  /\ debug = FALSE
  /\ state_counter = 0
  /\ supports = <<>>
  /\ attempted = {}
  /\ chain = <<>>
  /\ input = <<>>
  /\ l_ch_s = <<>>
  /\ l_nodes_s = {}
  /\ M = <<>>
  /\ counter = 0
  /\ pc = IF extract_border_chain_from_list(<<>>, {}) = None THEN "error" ELSE "start"
  /\ ch_i = None
  /\ l_s_outward = <<>>
  /\ l_s_inward = <<>>
  /\ location = "inwards"
  /\ j_pointer = 0
  /\ next_chain_index = 0
  /\ iterations_since_last_change = 0
  /\ size_l_chain_init = 0
  /\ close_idx = 0
  /\ sim = "accept"
  /\ last = [op |-> "raise", chain |-> None]

\* a chain list without a center chain: the innermost chain is a partial
\* chain of half the rays, and no chain but the border is on every ray
WithoutCenter(C0) ==
  [C0 EXCEPT ![CenterH] = NewChain(NumArcs, "normal", ArcNodes(0, HalfArc, CenterR))]
NoCenterInputs == {WithoutCenter(C0) : C0 \in {C \in Inputs : C[1].size = LongArc}}

\* two chains that cross: on the rays 0 .. 3 the first goes from the first
\* level up to the second and the second from the second level down to the
\* first, so that each has the other inward of one endpoint and outward of
\* the other
CrossingArc(from, to) ==
  [a \in Angles |-> IF a < 2 THEN from ELSE IF a < 4 THEN to ELSE NoNode]
WithCrossing(C0) ==
  [C0 EXCEPT ![1] = NewChain(0, "normal", CrossingArc(1, NumLevels)),
             ![2] = NewChain(1, "normal", CrossingArc(NumLevels, 1))]
CrossingInputs ==
  {C1 \in {WithCrossing(C0) : C0 \in {C \in Inputs : C[1].size = 4 /\ C[2].size = 4}} :
     ValidInput(C1)}

\* the runs with arbitrary answers of the similarity test start from the
\* inputs whose arcs all lie on the first level and from those with a chain
\* of one node
SingleLevel(C0) == \A t \in Arcs : \A a \in Angles : C0[t].r[a] \in {NoNode, 1}
InitUnder(C0, regime) ==
  /\ regime = "free" => SingleLevel(C0) \/ C0[2].size = SingleNode
  /\ InitWith(C0, regime)

Init ==
  \/ \E C0 \in Inputs, regime \in SimRegimes : InitUnder(C0, regime)
  \/ \E C0 \in CrossingInputs : InitWith(C0, "accept")
  \/ \E C0 \in NoCenterInputs : InitWith(C0, "accept")
  \/ \E C0 \in Inputs : InitRun(C0, "accept", TRUE)
  \/ InitEmpty

(* ----------- start of a pass (lines 54-71, 116-141, 237-239) ----------- *)
\* a slip: the border chain is added from the row before the last on
IsLastRow_one_early(c) == c >= iterations - 2

\* lines 60-66: counter < self.iterations - 1, counter == self.iterations - 1
IsLastRow(c) == c = iterations - 1

\* get_iteration_parameters(counter) and SystemStatus.__init__: the last row
\* adds the border chain under the id len(ch_s_without_border); the list is
\* sorted by size and every chain's references are recomputed
StartPass ==
  /\ pc = "start"
  /\ \E lastRow \in {IsLastRow(counter)} :
     \E C1 \in {IF lastRow THEN [chain EXCEPT ![BorderH].id = Len(l_ch_s)] ELSE chain} :
     \E L2 \in {SortBySize(C1, IF lastRow THEN Append(l_ch_s, BorderH) ELSE l_ch_s)} :
       /\ chain' = update_chain_neighbourhood(C1, L2, L2)
       /\ l_ch_s' = L2
       /\ l_nodes_s' = IF lastRow THEN l_nodes_s \cup NodesOf(chain, {BorderH})
                       ELSE l_nodes_s
  /\ next_chain_index' = 0
  /\ iterations_since_last_change' = 0
  /\ ch_i' = None
  /\ pc' = "select"
  /\ last' = [op |-> "start"]
  /\ UNCHANGED <<M, counter, l_s_outward, l_s_inward, location, j_pointer,
                 size_l_chain_init, close_idx, sim, debug>>
  /\ state_counter' = 0
  /\ supports' = <<>>
  /\ attempted' = {}
  /\ input' = CallerView(input, chain')

(* --------------- support chain selection (lines 168-227) --------------- *)
\* a slip: the chain after the next one
get_next_chain_index_in_list_by_two(L, h) == ((IndexOf(L, h) - 1) + 2) % Len(L)

\* SystemStatus.get_next_chain_index_in_list, 0-based
get_next_chain_index_in_list(L, h) == ((IndexOf(L, h) - 1) + 1) % Len(L)

\* SystemStatus.find_support_chain(ch_i, l_s_outward, l_s_inward):
\* [found, ch_i, l_ch_s, next_chain_index, iterations_since_last_change]
SupportResult(found, h, L, idx, its) ==
  [found |-> found, ch_i |-> h, l_ch_s |-> L, next_chain_index |-> idx,
   iterations_since_last_change |-> its]

\* a slip: the counter is compared with > instead of >=
SupportAt_one_more(L, idx, its) ==
  IF its > Len(L) THEN SupportResult(FALSE, None, L, idx, its)
  ELSE SupportResult(TRUE, L[idx + 1], L, idx, its)

\* lines 197-205: the counter against the chain count, then the chain at
\* next_chain_index
SupportAt(L, idx, its) ==
  IF its >= Len(L) THEN SupportResult(FALSE, None, L, idx, its)
  ELSE SupportResult(TRUE, L[idx + 1], L, idx, its)

\* a slip: after a merge the chain after the previous one is taken, whatever
\* the sizes of the chains of the round are
find_support_chain_next_only(C, L, prev, outward, inward, nci, isl, init_size) ==
  IF Len(L) = 0 THEN SupportResult(FALSE, None, L, nci, isl)
  ELSE IF prev = None THEN SupportAt(L, 0, isl)
  ELSE IF init_size > Len(L)
    THEN With(SortBySize(C, L), LAMBDA Ls :
           SupportAt(Ls, get_next_chain_index_in_list(Ls, prev), 0))
  ELSE SupportAt(L, get_next_chain_index_in_list(L, prev), isl + 1)

\* SystemStatus.find_support_chain
find_support_chain(C, L, prev, outward, inward, nci, isl, init_size) ==
  IF Len(L) = 0 THEN SupportResult(FALSE, None, L, nci, isl)
  ELSE IF prev = None THEN SupportAt(L, 0, isl)
  ELSE IF init_size > Len(L)
    THEN With(SortBySize(C, L), LAMBDA Ls :
         With(SortBySize(C, <<prev>> \o outward \o inward)[1], LAMBDA longest :
           SupportAt(Ls, IF C[longest].id = C[prev].id
                           THEN get_next_chain_index_in_list(Ls, prev)
                           ELSE IndexOf(Ls, longest) - 1,
                     0)))
  ELSE SupportAt(L, get_next_chain_index_in_list(L, prev), isl + 1)

\* lines 350-351 and 383: ch_i = state.find_support_chain(...); while ch_i
FindSupportChain ==
  /\ pc = "select"
  /\ \E f \in {find_support_chain(chain, l_ch_s, ch_i, l_s_outward, l_s_inward,
                                    next_chain_index, iterations_since_last_change,
                                    size_l_chain_init)} :
         /\ l_ch_s' = f.l_ch_s
         /\ next_chain_index' = f.next_chain_index
         /\ iterations_since_last_change' = f.iterations_since_last_change
         /\ ch_i' = f.ch_i
         /\ size_l_chain_init' = IF f.found THEN Len(f.l_ch_s) ELSE size_l_chain_init
         /\ pc' = IF f.found THEN "visible" ELSE "close"
         /\ supports' = IF f.found THEN Append(supports, f.ch_i) ELSE supports
         /\ last' = [op |-> "select", previous |-> ch_i, found |-> f.found,
                     merged |-> (ch_i # None /\ size_l_chain_init > Len(l_ch_s)),
                     count |-> Len(l_ch_s),
                     before |-> iterations_since_last_change]
  /\ close_idx' = 0
  /\ UNCHANGED <<chain, l_nodes_s, M, counter, l_s_outward, l_s_inward, location,
                 j_pointer, sim, input, debug, state_counter, attempted>>

(* ------------------- visible chains (lines 686-754) -------------------- *)
\* get_inward_and_outward_list_chains_via_pointers: <<l_s_outward, l_s_inward>>
get_inward_and_outward_list_chains_via_pointers(C, L, support) ==
  << Filter(L, LAMBDA h : h # support /\ (C[h].A_inward = support \/ C[h].B_inward = support)),
     Filter(L, LAMBDA h : h # support /\ (C[h].A_outward = support \/ C[h].B_outward = support)) >>

\* a slip: the chains of both groups stay in both
remove_chains_if_present_at_both_groups_kept(S_up, S_down) == S_up

\* remove_chains_if_present_at_both_groups(S_up, S_down): S_up without S_down
remove_chains_if_present_at_both_groups(S_up, S_down) ==
  Filter(S_up, LAMBDA h : h \notin Range(S_down))

\* find_visible_chains: <<l_s_outward, l_s_inward>>
find_visible_chains(C, L, support) ==
  With(get_inward_and_outward_list_chains_via_pointers(C, L, support), LAMBDA both :
    <<remove_chains_if_present_at_both_groups(both[1], both[2]), both[2]>>)

\* line 353, and the start of the for loop of line 355 at the inward list
FindVisibleChains ==
  /\ pc = "visible"
  /\ \E v \in {find_visible_chains(chain, l_ch_s, ch_i)} :
         /\ l_s_outward' = v[1]
         /\ l_s_inward' = v[2]
  /\ location' = "inwards"
  /\ j_pointer' = 0
  /\ pc' = "scan"
  /\ last' = [op |-> "visible"]
  /\ UNCHANGED <<chain, l_ch_s, l_nodes_s, M, counter, ch_i, next_chain_index,
                 iterations_since_last_change, size_l_chain_init, close_idx, sim, input,
                 debug, state_counter, supports>>
  /\ attempted' = {}

(* ------------ interpolation (lib.interpolation_nodes) ------------------ *)
\* compute_interpolation_domain(endpoint, ext1, ext2, Nr): the rays strictly
\* between the two endpoints, walked from ext1 upward (B) or downward (A)
compute_interpolation_domain(endpoint, a1, a2) ==
  [t \in 1 .. ((IF endpoint = "B" THEN (a2 - a1 + Nr) % Nr ELSE (a1 - a2 + Nr) % Nr) - 1) |->
     IF endpoint = "B" THEN (a1 + t) % Nr ELSE (a1 - t + Nr) % Nr]

\* interpolate_nodes_given_chains: one node <<angle, radius>> per ray of the
\* domain, the radius going from that of ch_j's endpoint to that of the other
interpolate_nodes_given_chains(endpoint, a1, r1, a2, r2) ==
  With(compute_interpolation_domain(endpoint, a1, a2), LAMBDA dom :
    [t \in DOMAIN dom |-> <<dom[t], IF 2 * t <= Len(dom) + 1 THEN r1 ELSE r2>>])

\* the nodes a merge of ch_j and ch_k through `endpoint' would interpolate
MergeNodes(C, j, k, endpoint) ==
  interpolate_nodes_given_chains(endpoint,
    EndAngle(C[j], endpoint), C[j].r[EndAngle(C[j], endpoint)],
    EndAngle(C[k], Opposite(endpoint)), C[k].r[EndAngle(C[k], Opposite(endpoint))])

\* exist_chain_overlapping: some chain of the list, other than the chains
\* being connected, owns a node at the place of one of the given nodes
exist_chain_overlapping(C, L, nodes, connected) ==
  \E t \in DOMAIN nodes : \E p \in DOMAIN L :
     L[p] \notin connected /\ C[L[p]].r[nodes[t][1]] = nodes[t][2]

(* -------------- connectivity goodness (lines 848-891) ------------------ *)
\* similarity_conditions (lib.basic_properties): the answer of the external
\* test to the query <<ch_j, candidate, endpoint>> is acc's, unless the nodes
\* to interpolate overlap a chain (check_overlapping); the distance is the
\* radial distance between the two endpoints
similarity_conditions(C, L, acc, j, cand, endpoint) ==
  << /\ <<j, cand, endpoint>> \in acc
     /\ With(MergeNodes(C, j, cand, endpoint), LAMBDA nodes :
            ~exist_chain_overlapping(C, L, nodes, {j, cand})),
     Abs(C[j].r[EndAngle(C[j], endpoint)]
           - C[cand].r[EndAngle(C[cand], Opposite(endpoint))]) >>

\* a slip: the coverage by the support chain is not looked at
check_endpoints_unchecked(C, support, j, cand, endpoint) == TRUE

\* check_endpoints: the interpolation domain lies in the angular domain of
\* the support chain
check_endpoints(C, support, j, cand, endpoint) ==
  Range(compute_interpolation_domain(endpoint, EndAngle(C[j], endpoint),
                                     EndAngle(C[cand], Opposite(endpoint))))
    \subseteq Dom(C[support])

\* the size criterion, line 877
SizeCriterion(C, j, cand) == C[j].size + C[cand].size <= Nr

\* connectivity_goodness_condition: <<pass, distance>>
connectivity_goodness_condition(C, L, acc, j, cand, support, endpoint) ==
  IF ~SizeCriterion(C, j, cand) THEN <<FALSE, NoDistance>>
  ELSE IF ~check_endpoints(C, support, j, cand, endpoint) THEN <<FALSE, NoDistance>>
  ELSE similarity_conditions(C, L, acc, j, cand, endpoint)

(* ---------------- closest chain search (lines 393-535) ----------------- *)
\* a slip: the candidates are not filtered by the intersection matrix
find_non_intersection_unfiltered(C, Mx, cands, j) == cands

\* find_non_intersection(M, l_candidates_chi, ch_j)
find_non_intersection(C, Mx, cands, j) ==
  Filter(cands, LAMBDA h : ~(C[h].id \in DOMAIN Mx /\ Mx[C[j].id][C[h].id] = 1))

\* angular_distance <= neighbourhood_size, both in degrees
InNeighbourhood(C, nb, j, cand, endpoint) ==
  AngularSteps(C[j], C[cand], endpoint) * FullCircle <= nb * Nr

\* the directional filter of lines 811-822: the candidate's opposite
\* reference must designate the support chain
PointsAtSupport(C, cand, support, endpoint, loc) ==
  IF endpoint = "A" /\ loc = "inwards" THEN C[cand].B_outward = support
  ELSE IF endpoint = "A" /\ loc = "outwards" THEN C[cand].B_inward = support
  ELSE IF endpoint = "B" /\ loc = "inwards" THEN C[cand].A_outward = support
  ELSE C[cand].A_inward = support

\* get_chains_in_neighbourhood and sort_chains_in_neighbourhood: the chains,
\* by angular distance and then by euclidean distance between endpoints
get_chains_in_neighbourhood(C, nb, l_no_intersection_j, j, support, endpoint, loc) ==
  With(Filter(l_no_intersection_j, LAMBDA h :
                /\ InNeighbourhood(C, nb, j, h, endpoint)
                /\ C[h].id # C[j].id
                /\ PointsAtSupport(C, h, support, endpoint, loc)), LAMBDA near :
  With([p \in DOMAIN near |->
        <<AngularSteps(C[j], C[near[p]], endpoint), MinEndDist(C[near[p]], C[j]), near[p]>>],
       LAMBDA keyed : Values(StableSort(keyed))))

\* intersection_chains(M, candidate_chain, l_sorted_chains_in_neighbourhood)
intersection_chains(C, Mx, cand, sorted) ==
  Filter(sorted, LAMBDA h : Mx[C[cand].id][C[h].id] = 1 /\ C[cand].id # C[h].id)

\* a slip: the chains that intersect the candidate are not looked at
get_the_closest_chain_by_radial_distance_candidate_only(C, L, Mx, acc, j, support, endpoint, cand_distance, cand, sorted) ==
  cand

\* get_the_closest_chain_by_radial_distance_that_does_not_intersect
get_the_closest_chain_by_radial_distance(C, L, Mx, acc, j, support, endpoint, cand_distance, cand, sorted) ==
  With(intersection_chains(C, Mx, cand, sorted), LAMBDA inter :
  With([p \in DOMAIN inter |->
          connectivity_goodness_condition(C, L, acc, j, inter[p], support, endpoint)],
       LAMBDA verdict :
  With(Filter([p \in DOMAIN inter |-> p], LAMBDA p : verdict[p][1]), LAMBDA good :
  With(<<<<cand_distance, 0, cand>>>> \o
         [q \in DOMAIN good |-> <<verdict[good[q]][2], 0, inter[good[q]]>>],
       LAMBDA sets : StableSort(sets)[1][3]))))

\* get_closest_chain: None, or the chain chosen for the first candidate of
\* the sorted neighbourhood that passes the goodness condition
get_closest_chain(C, L, Mx, nb, acc, j, l_no_intersection_j, support, loc, endpoint) ==
  With(get_chains_in_neighbourhood(C, nb, l_no_intersection_j, j, support, endpoint, loc),
       LAMBDA sorted :
  With([p \in DOMAIN sorted |->
          connectivity_goodness_condition(C, L, acc, j, sorted[p], support, endpoint)],
       LAMBDA verdict :
    IF \A p \in DOMAIN sorted : ~verdict[p][1] THEN None
    ELSE With(CHOOSE p \in DOMAIN sorted :
                verdict[p][1] /\ \A q \in 1 .. (p - 1) : ~verdict[q][1],
              LAMBDA first :
           get_the_closest_chain_by_radial_distance(C, L, Mx, acc, j, support, endpoint,
             verdict[first][2], sorted[first], sorted))))

\* what get_closest_chain_logic returns (ch_k), with its locals: the chain
\* found from ch_j's side and the chain found from that chain's side
LogicResult(ch_k, closest, symmetric_chain) ==
  [ch_k |-> ch_k, closest |-> closest, symmetric_chain |-> symmetric_chain]

\* a slip: the search is not repeated from ch_k's side
get_closest_chain_logic_one_sided(C, L, Mx, nb, acc, j, cands, l_no_intersection_j, support, loc, endpoint) ==
  With(get_closest_chain(C, L, Mx, nb, acc, j, l_no_intersection_j, support, loc, endpoint),
       LAMBDA k :
    IF k = None THEN LogicResult(None, None, None)
    ELSE With(find_non_intersection(C, Mx, cands, k), LAMBDA l_no_intersection_k :
         With(get_closest_chain(C, L, Mx, nb, acc, k, l_no_intersection_k, support, loc,
                                Opposite(endpoint)),
              LAMBDA symmetric_chain :
           IF C[k].size + C[j].size > Nr THEN LogicResult(None, k, symmetric_chain)
           ELSE LogicResult(k, k, symmetric_chain))))

\* get_closest_chain_logic with symmetric = True
get_closest_chain_logic(C, L, Mx, nb, acc, j, cands, l_no_intersection_j, support, loc, endpoint) ==
  With(get_closest_chain(C, L, Mx, nb, acc, j, l_no_intersection_j, support, loc, endpoint),
       LAMBDA k :
    IF k = None THEN LogicResult(None, None, None)
    ELSE With(find_non_intersection(C, Mx, cands, k), LAMBDA l_no_intersection_k :
         With(get_closest_chain(C, L, Mx, nb, acc, k, l_no_intersection_k, support, loc,
                                Opposite(endpoint)),
              LAMBDA symmetric_chain :
           IF symmetric_chain # j THEN LogicResult(None, k, symmetric_chain)
           ELSE IF C[k].size + C[j].size > Nr THEN LogicResult(None, k, symmetric_chain)
           ELSE LogicResult(k, k, symmetric_chain))))

(* ---------------- endpoint selection (lines 757-783, 900-904) ---------- *)
\* distance_between_border(chain_1, chain_2, border_1)
distance_between_border(C, c1, c2, border_1) ==
  IF border_1 = "A" THEN EndDist(C[c1], "A", C[c2], "B")
  ELSE EndDist(C[c2], "B", C[c2], "A")

\* a slip: of two candidates the one with the smaller distance wins
select_closest_chain_smaller(C, j, a_neighbour, b_neighbour) ==
  With(IF a_neighbour # None THEN distance_between_border(C, j, a_neighbour, "A")
       ELSE NoDistance, LAMBDA d_a :
  With(IF b_neighbour # None THEN distance_between_border(C, j, b_neighbour, "B")
       ELSE NoDistance, LAMBDA d_b :
    IF d_a = NoDistance /\ d_b = NoDistance THEN <<None, "none">>
    ELSE IF d_b = NoDistance \/ (d_a # NoDistance /\ d_a <= d_b) THEN <<a_neighbour, "A">>
    ELSE <<b_neighbour, "B">>))

\* select_closest_chain: <<closest_chain, endpoint>>
select_closest_chain(C, j, a_neighbour, b_neighbour) ==
  With(IF a_neighbour # None THEN distance_between_border(C, j, a_neighbour, "A")
       ELSE NoDistance, LAMBDA d_a :
  With(IF b_neighbour # None THEN distance_between_border(C, j, b_neighbour, "B")
       ELSE NoDistance, LAMBDA d_b :
    IF d_a = NoDistance /\ d_b = NoDistance THEN <<None, "none">>
    ELSE IF d_a >= d_b THEN <<a_neighbour, "A">>
    ELSE <<b_neighbour, "B">>))

\* find_closest: <<ch_k, endpoint>>, followed by what the two calls of
\* get_closest_chain_logic returned
find_closest(C, L, Mx, nb, acc, j, cands, l_no_intersection_j, support, loc) ==
  With(get_closest_chain_logic(C, L, Mx, nb, acc, j, cands, l_no_intersection_j, support,
                               loc, "B"), LAMBDA ch_k_b :
  With(get_closest_chain_logic(C, L, Mx, nb, acc, j, cands, l_no_intersection_j, support,
                               loc, "A"), LAMBDA ch_k_a :
    select_closest_chain(C, j, ch_k_a.ch_k, ch_k_b.ch_k)
      \o << [A |-> ch_k_a, B |-> ch_k_b] >>))

(* ------------------- merge executor (lines 537-681) -------------------- *)
\* a slip: the interpolated nodes are added to ch_j a second time, with the
\* nodes of ch_k
merge_two_chains_twice(C, j, k, new_nodes) ==
  With(add_nodes_list(C[j], new_nodes), LAMBDA withNew :
  With(NodeList(C[k]), LAMBDA k_nodes :
    [C EXCEPT ![j] = add_nodes_list(withNew, k_nodes \o new_nodes),
              ![k].r = [a \in Angles |-> NoNode]]))

\* merge_two_chains: ch_j takes the interpolated nodes and, through
\* move_nodes_from_one_chain_to_another, the nodes of ch_k, which from then
\* on carry ch_j's id (they are no longer found under ch_k; ch_k keeps its
\* other attributes)
merge_two_chains(C, j, k, new_nodes) ==
  With(add_nodes_list(C[j], new_nodes), LAMBDA withNew :
  With(NodeList(C[k]), LAMBDA k_nodes :
    [C EXCEPT ![j] = add_nodes_list(withNew, k_nodes),
              ![k].r = [a \in Angles |-> NoNode]]))

\* a slip: the matrix is not told of the new nodes
update_intersection_matrix_in_radial_direction_skipped(C, L, Mx, j, nodes) == Mx

\* update_intersection_matrix_in_radial_direction: for every new node, ch_j
\* intersects the chains that own a node on the node's ray
update_intersection_matrix_in_radial_direction(C, L, Mx, j, nodes) ==
  With([t \in DOMAIN nodes |-> {C[h].id : h \in Range(ChainsWithinAngle(C, L, nodes[t][1]))}],
       LAMBDA ids :
    [x \in DOMAIN Mx |-> [y \in DOMAIN Mx |->
       IF \E t \in DOMAIN nodes :
            (x = C[j].id /\ y \in ids[t]) \/ (y = C[j].id /\ x \in ids[t])
         THEN 1 ELSE Mx[x][y]]])

\* the chain owning the dot just below the new node on its ray, searched by
\* id among the chains of the ray (None without such a dot)
DownChain(C, L, node) ==
  With(ChainsWithinAngle(C, L, node[1]), LAMBDA over :
    NextOnRay(C, over, node[1], node[2], -1))

\* update_visibility_chain_pointers_in_radial_direction for every new node.
\* The new node is already a node of ch_j when it is appended to the dots of
\* its ray, so the dot after it is the node itself and up_chain is ch_j, whose
\* references update_chain_neighbourhood([ch_j]) recomputes afterwards. The
\* chain of the dot below has its outward reference set to ch_j when that dot
\* is its endpoint (every repair writes ch_j, so the order of the nodes does
\* not matter)
update_visibility_chain_pointers_in_radial_direction(C, L, j, nodes) ==
  With([t \in DOMAIN nodes |-> DownChain(C, L, nodes[t])], LAMBDA down :
    [g \in DOMAIN C |->
       [C[g] EXCEPT
          !.A_outward = IF \E t \in DOMAIN nodes : down[t] = g /\ C[g].extA = nodes[t][1]
                          THEN j ELSE @,
          !.B_outward = IF \E t \in DOMAIN nodes :
                             down[t] = g /\ C[g].extA # nodes[t][1] /\ C[g].extB = nodes[t][1]
                          THEN j ELSE @]])

\* add_interpolated_nodes_to_system: <<chains, M>> after the nodes were
\* registered and ch_j's references recomputed
add_interpolated_nodes_to_system(C, L, Mx, j, nodes) ==
  With(update_visibility_chain_pointers_in_radial_direction(C, L, j, nodes), LAMBDA C1 :
    << update_chain_neighbourhood(C1, L, <<j>>),
       update_intersection_matrix_in_radial_direction(C, L, Mx, j, nodes) >>)

\* update_chain_after_connect: references to ch_k become references to ch_j
SwapRef(C, ref, j, k) == IF ref # None /\ C[ref].id = C[k].id THEN j ELSE ref

\* a slip: the references to ch_k are left as they are
update_chain_after_connect_skipped(C, L, j, k) == C

\* update_chain_after_connect(state, ch_j, ch_k)
update_chain_after_connect(C, L, j, k) ==
  [h \in DOMAIN C |->
     IF h \in Range(L)
       THEN [C[h] EXCEPT !.A_outward = SwapRef(C, C[h].A_outward, j, k),
                         !.A_inward = SwapRef(C, C[h].A_inward, j, k),
                         !.B_outward = SwapRef(C, C[h].B_outward, j, k),
                         !.B_inward = SwapRef(C, C[h].B_inward, j, k)]
       ELSE C[h]]

\* the logical or of the rows of ch_j and ch_k at column y, and the index
\* before the deletion of the row or column that has index x after it
OrRows(Mx, jid, kid, y) == IF Mx[jid][y] = 1 \/ Mx[kid][y] = 1 THEN 1 ELSE 0
Undeleted(x, kid) == IF x < kid THEN x ELSE x + 1

\* a slip: the logical or is written to ch_j's row only, not to its column
update_intersection_matrix_row_only(Mx, jid, kid) ==
  [x \in 0 .. (Dim(Mx) - 2) |-> [y \in 0 .. (Dim(Mx) - 2) |->
     IF Undeleted(x, kid) = jid THEN OrRows(Mx, jid, kid, Undeleted(y, kid))
     ELSE Mx[Undeleted(x, kid)][Undeleted(y, kid)]]]

\* update_intersection_matrix: row and column of ch_j become the logical or
\* of the rows of ch_j and ch_k, then row and column of ch_k are deleted
update_intersection_matrix(Mx, jid, kid) ==
  [x \in 0 .. (Dim(Mx) - 2) |-> [y \in 0 .. (Dim(Mx) - 2) |->
     IF Undeleted(y, kid) = jid THEN OrRows(Mx, jid, kid, Undeleted(x, kid))
     ELSE IF Undeleted(x, kid) = jid THEN OrRows(Mx, jid, kid, Undeleted(y, kid))
     ELSE Mx[Undeleted(x, kid)][Undeleted(y, kid)]]]

\* a slip: the chain before ch_k is deleted
delete_closest_chain_off_by_one(s, k) ==
  IF IndexOf(s, k) > 1 THEN RemoveAt(s, IndexOf(s, k) - 1) ELSE s

\* delete_closest_chain: ch_k leaves a list
delete_closest_chain(s, k) == RemoveAt(s, IndexOf(s, k))

\* a slip: no id is renumbered
update_chains_ids_skipped(C, L, kid) == C

\* a slip: the id next to ch_k's is left as it is
update_chains_ids_above_next(C, L, kid) ==
  [h \in DOMAIN C |->
     IF h \in Range(L) /\ C[h].id > kid + 1 THEN [C[h] EXCEPT !.id = C[h].id - 1] ELSE C[h]]

\* update_chains_ids: the ids above ch_k's go down by one
update_chains_ids(C, L, kid) ==
  [h \in DOMAIN C |->
     IF h \in Range(L) /\ C[h].id > kid THEN [C[h] EXCEPT !.id = C[h].id - 1] ELSE C[h]]

\* a slip: ch_k is left in the list of candidates
update_chain_list_candidate_kept(C, L, Mx, nodes_s, cands, j, k, new_nodes) ==
  With(add_interpolated_nodes_to_system(C, L, Mx, j, new_nodes), LAMBDA added :
  With(update_chain_after_connect(added[1], L, j, k), LAMBDA C2 :
  With(delete_closest_chain(L, k), LAMBDA L2 :
    [chain |-> update_chains_ids(C2, L2, C2[k].id),
     l_ch_s |-> L2,
     M |-> update_intersection_matrix(added[2], C2[j].id, C2[k].id),
     l_nodes_s |-> nodes_s \cup Range(new_nodes),
     candidates |-> cands])))

\* a slip: the interpolated nodes do not join the nodes of the state
update_chain_list_nodes_unregistered(C, L, Mx, nodes_s, cands, j, k, new_nodes) ==
  With(add_interpolated_nodes_to_system(C, L, Mx, j, new_nodes), LAMBDA added :
  With(update_chain_after_connect(added[1], L, j, k), LAMBDA C2 :
  With(delete_closest_chain(L, k), LAMBDA L2 :
    [chain |-> update_chains_ids(C2, L2, C2[k].id),
     l_ch_s |-> L2,
     M |-> update_intersection_matrix(added[2], C2[j].id, C2[k].id),
     l_nodes_s |-> nodes_s,
     candidates |-> delete_closest_chain(cands, k)])))

\* update_chain_list after merge_two_chains:
\* [chain, l_ch_s, M, l_nodes_s, candidates]
update_chain_list(C, L, Mx, nodes_s, cands, j, k, new_nodes) ==
  With(add_interpolated_nodes_to_system(C, L, Mx, j, new_nodes), LAMBDA added :
  With(update_chain_after_connect(added[1], L, j, k), LAMBDA C2 :
  With(delete_closest_chain(L, k), LAMBDA L2 :
    [chain |-> update_chains_ids(C2, L2, C2[k].id),
     l_ch_s |-> L2,
     M |-> update_intersection_matrix(added[2], C2[j].id, C2[k].id),
     l_nodes_s |-> nodes_s \cup Range(new_nodes),
     candidates |-> delete_closest_chain(cands, k)])))

\* lines 373-375: merge_two_chains, then update_chain_list
MergeAndUpdate(C, L, Mx, nodes_s, cands, j, k, endpoint) ==
  With(MergeNodes(C, j, k, endpoint), LAMBDA new_nodes :
  With(merge_two_chains(C, j, k, new_nodes), LAMBDA C1 :
    update_chain_list(C1, L, Mx, nodes_s, cands, j, k, new_nodes)))

\* a slip: the pointer stays on ch_j when nothing was merged
update_pointer_stuck(j, closest, cands) == IndexOf(cands, j) - 1

\* a slip: the old position of ch_j plus one after a failed attempt, the old
\* position after a merge, the list having lost ch_k in between
update_pointer_not_recomputed(j, closest, cands) ==
  IF closest # None THEN j_pointer ELSE j_pointer + 1

\* update_pointer, 0-based
update_pointer(j, closest, cands) ==
  IF closest # None THEN IndexOf(cands, j) - 1 ELSE IndexOf(cands, j)

(* ----------------- the candidate loop (lines 355-380) ------------------ *)
Candidates == IF location = "inwards" THEN l_s_inward ELSE l_s_outward

\* the queries the similarity test can be asked in this iteration: pairs of
\* candidates that lie in the neighbourhood of the endpoint and pass the size
\* and endpoint criteria
Queries(C, nb, cands, support) ==
  {q \in Range(cands) \X Range(cands) \X {"A", "B"} :
     /\ q[1] # q[2]
     /\ InNeighbourhood(C, nb, q[1], q[2], q[3])
     /\ SizeCriterion(C, q[1], q[2])
     /\ check_endpoints(C, support, q[1], q[2], q[3])}

\* the answers the similarity test can give under the regime
Answers(regime, queries) ==
  IF regime = "accept" THEN {queries}
  ELSE IF regime = "reject" THEN {{}}
  ELSE SUBSET queries

\* what lines 362-380 leave when no chain is merged
NoMerge == [chain |-> chain, l_ch_s |-> l_ch_s, M |-> M, l_nodes_s |-> l_nodes_s,
            candidates |-> Candidates]

(* ----------------------- debugging (lines 996-1001) -------------------- *)
\* what a debugging call is handed of the state: the flag, the image counter
\* and the chain list that is drawn
DebugState(d, c, L) == [debug |-> d, counter |-> c, l_ch_s |-> L]

\* a slip: the chain list comes back from the drawing in reverse order
debugging_chains_reversing(state) ==
  IF state.debug
    THEN [state EXCEPT !.counter = @ + 1,
                       !.l_ch_s = [p \in DOMAIN @ |-> @[Len(@) + 1 - p]]]
    ELSE state

\* debugging_chains(state, chains_to_debug, filename): with state.debug set
\* the chains are drawn into the file and state.counter grows by one
debugging_chains(state) ==
  IF state.debug THEN [state EXCEPT !.counter = @ + 1] ELSE state

\* n debugging calls in a row
RECURSIVE Checkpoints(_, _)
Checkpoints(state, n) ==
  IF n = 0 THEN state ELSE Checkpoints(debugging_chains(state), n - 1)

\* the debugging calls of one iteration before the merge: lines 360 and 364,
\* and lines 309, 314 and 318 of find_closest
ChecksBeforeMerge == 5

\* one iteration of the while loop of line 359, run with the debug flag d;
\* the image counter belongs to the run whose flag is d
ScanStepWith(d) ==
  /\ pc = "scan"
  /\ j_pointer < Len(Candidates)
  /\ \E nb \in {neighbourhood_size_table[counter + 1]}, ch_j \in {Candidates[j_pointer + 1]} :
     \E seen \in {Checkpoints(DebugState(d, state_counter, l_ch_s), ChecksBeforeMerge)} :
     \E acc \in Answers(sim, Queries(chain, nb, Candidates, ch_i)) :
     \E valid_chains \in {find_non_intersection(chain, M, Candidates, ch_j)} :
     \E found \in {find_closest(chain, seen.l_ch_s, M, nb, acc, ch_j, Candidates,
                                valid_chains, ch_i, location)} :
     \E merge \in {~(found[2] = "none" \/ ch_j = found[1])} :
     \E u \in {IF merge
                 THEN MergeAndUpdate(chain, seen.l_ch_s, M, l_nodes_s, Candidates, ch_j,
                                     found[1], found[2])
                 ELSE [NoMerge EXCEPT !.l_ch_s = seen.l_ch_s]} :
     \E drawn \in {IF merge
                     THEN debugging_chains(DebugState(d, seen.counter, u.l_ch_s))
                     ELSE DebugState(d, seen.counter, u.l_ch_s)} :
       /\ chain' = u.chain
       /\ l_ch_s' = drawn.l_ch_s
       /\ (d = debug) => (state_counter' = drawn.counter)
       /\ supports' = IF merge THEN <<>> ELSE supports
       /\ attempted' = attempted \cup {ch_j}
       /\ M' = u.M
       /\ l_nodes_s' = u.l_nodes_s
       /\ l_s_inward' = IF location = "inwards" THEN u.candidates ELSE l_s_inward
       /\ l_s_outward' = IF location = "outwards" THEN u.candidates ELSE l_s_outward
       /\ j_pointer' = update_pointer(ch_j, found[1], u.candidates)
       /\ last' = IF merge
                    THEN [op |-> "merge", j |-> ch_j, k |-> found[1], endpoint |-> found[2],
                          support |-> ch_i, ids |-> [h \in Handles |-> chain[h].id],
                          live |-> Range(l_ch_s), k_nodes |-> Range(NodeList(chain[found[1]])),
                          j_nodes |-> Range(NodeList(chain[ch_j])),
                          domain |-> Range(compute_interpolation_domain(found[2],
                                       EndAngle(chain[ch_j], found[2]),
                                       EndAngle(chain[found[1]], Opposite(found[2])))),
                          cands |-> Range(Candidates), Mj |-> M[chain[ch_j].id],
                          sizes |-> chain[ch_j].size + chain[found[1]].size,
                          Mjk |-> M[chain[ch_j].id][chain[found[1]].id],
                          search |-> found[3]]
                    ELSE [op |-> "advance", j |-> ch_j, search |-> found[3]]
  /\ UNCHANGED <<counter, pc, ch_i, location, next_chain_index,
                 iterations_since_last_change, size_l_chain_init, close_idx, sim, debug>>
  /\ input' = CallerView(input, chain')

\* the iteration as the run takes it, under its own debug flag
ScanStep == ScanStepWith(debug)

\* the end of the while loop: the for loop of line 355 goes on with the
\* outward list, or line 383 is reached
NextLocation ==
  /\ pc = "scan"
  /\ j_pointer >= Len(Candidates)
  /\ IF location = "inwards"
       THEN /\ location' = "outwards"
            /\ j_pointer' = 0
            /\ pc' = "scan"
       ELSE /\ pc' = "select"
            /\ UNCHANGED <<location, j_pointer>>
  /\ last' = [op |-> "list_end", scanned |-> Candidates, attempted |-> attempted]
  /\ attempted' = {}
  /\ UNCHANGED <<chain, l_ch_s, l_nodes_s, M, counter, ch_i, l_s_outward, l_s_inward,
                 next_chain_index, iterations_since_last_change, size_l_chain_init,
                 close_idx, sim, input, debug, state_counter, supports>>

(* ------------------- closing pass (lines 146-163, 251-301) ------------- *)
\* a slip: the threshold test is lost, every chain that is not closed is
\* handed to close_chain
InWindow_no_threshold(c) == ~(c.size >= Nr)

\* a slip: every chain is skipped
InWindow_never(c) == FALSE

\* line 294, negated: the chain is neither closed nor below the threshold
InWindow(c) == ~(c.size >= Nr \/ ThresholdDen * c.size < ThresholdNum * Nr)

\* SystemStatus.get_common_chain_to_both_borders
get_common_chain_to_both_borders(C, L, h) ==
  With((Angles \ Dom(C[h])) \cup {C[h].extA, C[h].extB}, LAMBDA wanted :
  With(Filter(L, LAMBDA g :
         Cardinality(Dom(C[g]) \cap wanted) = Cardinality(Angles \ Dom(C[h])) + 2),
       LAMBDA common :
    IF common = <<>> THEN None
    ELSE With(StableSort([p \in DOMAIN common |->
                <<Abs(C[common[p]].r[C[h].extA] - C[h].r[C[h].extA]), 0, common[p]>>]),
              LAMBDA nodes_in_ray_a : ChainById(C, L, C[nodes_in_ray_a[1][3]].id))))

\* the nodes close_chain interpolates from extB up to extA
ClosingNodes(C, h) ==
  interpolate_nodes_given_chains("B", C[h].extB, C[h].r[C[h].extB],
                                 C[h].extA, C[h].r[C[h].extA])

\* a slip: the interpolated nodes are added to the first chain of the list
close_chain_first_of_list(C, L, Mx, nodes_s, h) ==
  With(ClosingNodes(C, h), LAMBDA new_nodes :
    With([C EXCEPT ![L[1]] = add_nodes_list(C[L[1]], new_nodes)], LAMBDA C1 :
    With(add_interpolated_nodes_to_system(C1, L, Mx, L[1], new_nodes), LAMBDA added :
      <<added[1], added[2], nodes_s \cup Range(new_nodes)>>)))

\* a slip: the answer of the overlap guard is not looked at
close_chain_unguarded(C, L, Mx, nodes_s, h) ==
  With(ClosingNodes(C, h), LAMBDA new_nodes :
    With([C EXCEPT ![h] = add_nodes_list(C[h], new_nodes)], LAMBDA C1 :
    With(add_interpolated_nodes_to_system(C1, L, Mx, h, new_nodes), LAMBDA added :
      <<added[1], added[2], nodes_s \cup Range(new_nodes)>>)))

\* close_chain(state, chain, ch_i): <<chains, M, nodes>>; nothing changes when
\* the interpolated nodes and the endpoints overlap another chain
close_chain(C, L, Mx, nodes_s, h) ==
  With(ClosingNodes(C, h), LAMBDA new_nodes :
    IF exist_chain_overlapping(C, L,
         <<<<C[h].extB, C[h].r[C[h].extB]>>>> \o new_nodes
           \o <<<<C[h].extA, C[h].r[C[h].extA]>>>>, {h})
      THEN <<C, Mx, nodes_s>>
    ELSE With([C EXCEPT ![h] = add_nodes_list(C[h], new_nodes)], LAMBDA C1 :
         With(add_interpolated_nodes_to_system(C1, L, Mx, h, new_nodes), LAMBDA added :
           <<added[1], added[2], nodes_s \cup Range(new_nodes)>>)))

\* one iteration of the for loop of
\* iterate_over_chains_list_and_complete_them_if_met_conditions; close_chain
\* is called with whatever get_common_chain_to_both_borders returned, and
\* the interpolation fails on an absent support chain
CloseStep ==
  /\ pc = "close"
  /\ close_idx < Len(l_ch_s)
  /\ \E h \in {l_ch_s[close_idx + 1]} :
       IF ~InWindow(chain[h])
         THEN /\ last' = [op |-> "skip", chain |-> h]
              /\ pc' = "close"
              /\ UNCHANGED <<chain, M, l_nodes_s>>
       ELSE \E support1 \in {get_common_chain_to_both_borders(chain, l_ch_s, h)} :
         IF support1 = None
           THEN /\ last' = [op |-> "raise", chain |-> h]
                /\ pc' = "error"
                /\ UNCHANGED <<chain, M, l_nodes_s>>
         ELSE \E c \in {close_chain(chain, l_ch_s, M, l_nodes_s, h)} :
              /\ chain' = c[1]
              /\ M' = c[2]
              /\ l_nodes_s' = c[3]
              /\ pc' = "close"
              /\ last' = [op |-> "close", chain |-> h, support |-> support1,
                          closed |-> (c[1] # chain), size |-> chain[h].size,
                          before |-> Range(NodeList(chain[h]))]
  /\ close_idx' = close_idx + 1
  /\ UNCHANGED <<l_ch_s, counter, ch_i, l_s_outward, l_s_inward, location, j_pointer,
                 next_chain_index, iterations_since_last_change, size_l_chain_init,
                 sim, debug, state_counter, supports, attempted>>
  /\ input' = CallerView(input, chain')

\* lines 386-389 and 110: the pass returns and its lists are handed to the
\* next row of the schedule; after the last row merge_chains returns
FinishPassWith(d) ==
  /\ pc = "close"
  /\ close_idx >= Len(l_ch_s)
  /\ \E drawn \in {debugging_chains(DebugState(d, state_counter, l_ch_s))} :
       /\ l_ch_s' = drawn.l_ch_s
       /\ (d = debug) => (state_counter' = drawn.counter)
  /\ counter' = counter + 1
  /\ pc' = IF counter + 1 < iterations THEN "start" ELSE "done"
  /\ last' = [op |-> "pass_end"]
  /\ UNCHANGED <<chain, l_nodes_s, M, ch_i, l_s_outward, l_s_inward, location,
                 j_pointer, next_chain_index, iterations_since_last_change,
                 size_l_chain_init, close_idx, sim, input, debug, supports, attempted>>

\* the end of the pass as the run takes it, under its own debug flag
FinishPass == FinishPassWith(debug)

Next ==
  \/ StartPass
  \/ FindSupportChain
  \/ FindVisibleChains
  \/ ScanStep
  \/ NextLocation
  \/ CloseStep
  \/ FinishPass

Spec == Init /\ [][Next]_vars

\* the program is sequential: a step that can be taken is taken
FairInit ==
  \E C0 \in Inputs, regime \in SimRegimes :
     /\ regime = "free" => SingleLevel(C0)
     /\ InitWith(C0, regime)
FairSpec == FairInit /\ [][Next]_vars /\ WF_vars(Next)

\* the chain lists in which the border chain does not carry the largest id:
\* it carries the id b, and the chains whose ids were b or more carry the id
\* after theirs
WithBorderId(C0, b) ==
  [h \in Handles |->
     IF h = BorderH THEN [C0[h] EXCEPT !.id = b]
     ELSE IF C0[h].id >= b THEN [C0[h] EXCEPT !.id = @ + 1]
     ELSE C0[h]]
BorderIdInputs == {WithBorderId(C0, b) : C0 \in Inputs, b \in {0, NumArcs}}

\* merge_chains on these chain lists too
BorderIdInit ==
  \/ Init
  \/ \E C0 \in BorderIdInputs : InitWith(C0, "accept")
BorderIdSpec == BorderIdInit /\ [][Next]_vars

(* ------------------------------ properties ----------------------------- *)
LiveIds == {chain[h].id : h \in Range(l_ch_s)}
Merged == last.op = "merge"
Scanned == last.op \in {"merge", "advance"}

\* C1: in every reachable state the intersection matrix M is symmetric and
\* every entry of its diagonal is 1
C1_MatrixSymmetricUnitDiagonal ==
  \A x, y \in DOMAIN M : M[x][y] = M[y][x] /\ M[x][x] = 1

\* a closing that added nodes to a chain made by merges
C1_Witness ==
  /\ last.op = "close" /\ last.closed
  /\ Len(l_ch_s) < NumArcs + 1
  /\ Dim(M) = Len(l_ch_s) + 1

C4_SizeWithinNr ==
  /\ \A h \in Range(l_ch_s) : chain[h].size <= Nr
  /\ Merged => last.sizes <= Nr

\* a closing that completed a chain grown by merges with interpolated nodes
C4_Witness ==
  /\ last.op = "close" /\ last.closed
  /\ chain[last.chain].size = Nr
  /\ input[last.chain].size < last.size

\* C5: the chains ch_j and ch_k of an executed merge do not intersect:
\* M[ch_j.id][ch_k.id] = 0 when the merge is decided
C5_MergedPairDoesNotIntersect ==
  Merged => last.Mjk = 0

\* a merge among candidates of which ch_j intersects another one
C5_Witness ==
  /\ Merged
  /\ \E h \in last.cands : h # last.j /\ last.Mj[last.ids[h]] = 1

\* C6: when the chain found from ch_j's endpoint does not find ch_j back
\* from its opposite endpoint, get_closest_chain_logic returns none for that
\* endpoint and no merge is executed through that endpoint
C6_SymmetricCheck ==
  Scanned =>
    \A e \in {"A", "B"} :
      (last.search[e].closest # None /\ last.search[e].symmetric_chain # last.j)
        => /\ last.search[e].ch_k = None
           /\ ~(Merged /\ last.endpoint = e)

\* the chain found from ch_j's side finds a third chain from its own side
C6_Witness ==
  /\ Scanned
  /\ \E e \in {"A", "B"} :
       /\ last.search[e].closest # None
       /\ last.search[e].symmetric_chain \notin {None, last.j}

\* C7: a call of find_support_chain that observes no merge adds one to the
\* no-change counter, a call that observes a merge resets it to 0, and the
\* call returns none exactly when the counter has reached the chain count;
\* the counter never exceeds the chain count
C7_SupportDriverCounter ==
  last.op = "select" =>
    /\ (last.previous # None /\ ~last.merged)
         => iterations_since_last_change = last.before + 1
    /\ (last.previous # None /\ last.merged) => iterations_since_last_change = 0
    /\ last.found <=> iterations_since_last_change < Len(l_ch_s)
    /\ iterations_since_last_change <= Len(l_ch_s)

\* none is returned after a full lap without a merge that followed a merge
C7_Witness ==
  /\ last.op = "select"
  /\ ~last.found
  /\ iterations_since_last_change = Len(l_ch_s)
  /\ Len(l_ch_s) < NumArcs + 1

ScanProgress ==
  ScanStep =>
    \/ /\ Len(l_ch_s') = Len(l_ch_s) - 1
       /\ Len(Candidates') = Len(Candidates) - 1
       /\ j_pointer' <= j_pointer
    \/ /\ j_pointer' = j_pointer + 1
       /\ l_ch_s' = l_ch_s
       /\ Candidates' = Candidates

RoundProgress ==
  (FindSupportChain /\ ch_i # None) =>
    \/ size_l_chain_init > Len(l_ch_s)
    \/ iterations_since_last_change' = iterations_since_last_change + 1

\* C8: every iteration of the candidate loop merges (one chain less in the
\* live list and in the candidate list) or moves j_pointer forward by one,
\* every support chain round follows a lowered chain count or raises the
\* no-change counter, and the loop of a pass always reaches the point where
\* find_support_chain returns none
C8_PassTerminates ==
  /\ [][ScanProgress /\ RoundProgress]_vars
  /\ (pc = "select") ~> (pc = "close")

\* the support chain driver returned none in a pass that merged
C8_Witness ==
  /\ pc = "close"
  /\ last.op = "select"
  /\ Len(l_ch_s) < NumArcs + 1
  /\ counter > 0

\* the closing pass completes a chain of 0.9 Nr nodes or more
NearComplete(c) == 10 * c.size >= 9 * Nr /\ c.size < Nr
SameStructure(c, d) ==
  c.size = d.size /\ c.id = d.id /\ c.extA = d.extA /\ c.extB = d.extB
Returned == pc = "done"

ScenarioInput ==
  InputChains(ArcLenProfile(4, 4, FillingArc),
              [t \in Arcs |-> 1], [t \in 1 .. (NumArcs - 1) |-> 1])
\* the first row of the schedule whose neighbourhood admits the gaps
FirstWide ==
  CHOOSE c \in 0 .. (iterations - 1) :
    /\ 2 * FullCircle <= neighbourhood_size_table[c + 1] * Nr
    /\ \A d \in 0 .. (c - 1) : ~(2 * FullCircle <= neighbourhood_size_table[d + 1] * Nr)
InScenario == input = ScenarioInput /\ sim = "accept" /\ counter = FirstWide
NormalLive == {h \in Range(l_ch_s) : chain[h].type = "normal"}

\* C10: in the scenario, when the loop of the pass ends the arcs are one
\* chain that spans all rays but the one between the last and the first arc,
\* and when the closing pass ends that chain has Nr nodes
C10_ScenarioMergedAndClosed ==
  /\ (InScenario /\ pc = "close" /\ close_idx = 0) =>
        \E h \in Arcs :
          /\ NormalLive = {h}
          /\ chain[h].size = Nr - 1
          /\ Dom(chain[h]) = 0 .. (Nr - 2)
  /\ (InScenario /\ pc = "close" /\ close_idx = Len(l_ch_s)) =>
        \E h \in Arcs : NormalLive = {h} /\ chain[h].size = Nr /\ Dom(chain[h]) = Angles

\* every node of c is a node of d
KeepsNodes(c, d) == \A a \in Angles : c.r[a] # NoNode => d.r[a] = c.r[a]

\* C11: an iteration of the closing pass leaves the live list and every id as
\* they are, leaves the nodes of every chain whose size is outside
\* [0.9 Nr, Nr) as they are, only adds nodes to a chain inside it, and leaves
\* chains, nodes and M unchanged when no live chain is inside it
C11_ClosingPassFrame ==
  [][CloseStep =>
       /\ l_ch_s' = l_ch_s
       /\ \A h \in Handles :
            /\ chain'[h].id = chain[h].id
            /\ KeepsNodes(chain[h], chain'[h])
            /\ ~NearComplete(chain[h]) =>
                 chain'[h].r = chain[h].r /\ chain'[h].size = chain[h].size
       /\ (\A h \in Range(l_ch_s) : ~NearComplete(chain[h])) =>
            UNCHANGED <<chain, l_nodes_s, M>>]_vars

\* a closing added nodes to a chain while a shorter chain was live
C11_Witness ==
  /\ last.op = "close" /\ last.closed
  /\ chain[last.chain].size > last.size
  /\ \E h \in Range(l_ch_s) :
       h # last.chain /\ chain[h].type = "normal" /\ 2 * chain[h].size < Nr

\* the chain the closing pass is at
ClosingChain == l_ch_s[close_idx + 1]
\* a live chain other than h owns a node at the place of one of the endpoints
\* of h or of a node that would close h
ClosingOverlaps(h) ==
  \E g \in Range(l_ch_s) \ {h} :
    \/ \E t \in DOMAIN ClosingNodes(chain, h) :
         chain[g].r[ClosingNodes(chain, h)[t][1]] = ClosingNodes(chain, h)[t][2]
    \/ chain[g].r[chain[h].extA] = chain[h].r[chain[h].extA]
    \/ chain[g].r[chain[h].extB] = chain[h].r[chain[h].extB]

\* C12: an iteration of the closing pass on a near complete chain whose
\* closing nodes overlap another chain changes no chain (nodes, size,
\* neighbour references), neither the node collection nor M, and goes on to
\* the next chain of the list
C12_OverlapGuardAbandons ==
  [][(CloseStep /\ NearComplete(chain[ClosingChain]) /\ ClosingOverlaps(ClosingChain))
       => /\ UNCHANGED <<chain, l_nodes_s, M, l_ch_s>>
          /\ close_idx' = close_idx + 1]_vars

\* a closing was abandoned on a chain made by a merge
C12_Witness ==
  /\ last.op = "close" /\ ~last.closed
  /\ ClosingOverlaps(last.chain)
  /\ chain[last.chain].size = last.size
  /\ input[last.chain].size < last.size

\* C13: merge_chains called with an empty chain collection does not raise
C13_EmptyInputDoesNotRaise ==
  DOMAIN input = {} => pc # "error"

\* C14: a search that finds nothing is branched on before its result is
\* used: an iteration of the candidate loop whose search returned no chain
\* for either endpoint merges nothing, a merge has a chain and an endpoint,
\* and close_chain is never handed an absent support chain
C14_AbsentResultsAreBranchedOn ==
  /\ (Scanned /\ last.search["A"].ch_k = None /\ last.search["B"].ch_k = None)
        => ~Merged
  /\ Merged => last.k # None /\ last.endpoint \in {"A", "B"}
  /\ ~(last.op = "raise" /\ last.chain # None)

InPass == pc \in {"select", "visible", "scan", "close"}
BorderHandedOver ==
  /\ BorderH \in Range(l_ch_s)
  /\ NodesOf(chain, {BorderH}) \subseteq l_nodes_s
BorderHeldBack ==
  /\ BorderH \notin Range(l_ch_s)
  /\ NodesOf(chain, {BorderH}) \cap l_nodes_s = {}

\* C15: the schedule has 9 rows, the passes take them in the order 0..8
\* (merge_chains returns after the 9th), and the chain list and the node
\* collection of a pass hold the border chain and its nodes in the last
\* pass and in no other
C15_NineRowsBorderLast ==
  /\ [](/\ iterations = 9 /\ Len(neighbourhood_size_table) = 9
        /\ counter \in 0 .. iterations
        /\ (pc = "done") => counter = iterations
        /\ InPass => counter < iterations
        /\ InPass => IF counter = 8 THEN BorderHandedOver ELSE BorderHeldBack)
  /\ [][/\ counter' \in {counter, counter + 1}
        /\ (counter' = counter + 1) <=> (pc = "close" /\ pc' \in {"start", "done"})
        /\ (pc = "start" /\ pc' # pc) => (pc' = "select" /\ counter' = counter)]_vars

\* merge_chains returned after the pass that took the border chain in
C15_Witness ==
  /\ pc = "done" /\ counter = iterations
  /\ BorderHandedOver
  /\ last.op = "pass_end"

\* C16 as stated: only the last of the 9 passes appends closing nodes
C16_OnlyLastPassCloses ==
  (last.op = "close" /\ last.closed) => counter = iterations - 1

\* C16, amended: every one of the 9 passes ends with the closing pass: a
\* pass hands over only after the closing pass went through the whole live
\* list, and in every pass a near complete chain that has a common support
\* chain and whose closing nodes overlap no chain gets nodes appended
C16_EveryPassRunsClosingPass ==
  [][/\ (counter' = counter + 1) => (pc = "close" /\ close_idx >= Len(l_ch_s))
     /\ (pc = "select" /\ pc' \notin {"select", "visible"})
          => (pc' = "close" /\ close_idx' = 0)
     /\ (/\ CloseStep /\ pc' # "error"
         /\ NearComplete(chain[ClosingChain]) /\ ~ClosingOverlaps(ClosingChain))
          => chain'[ClosingChain].size > chain[ClosingChain].size]_vars

\* the closing pass of a pass before the last appended nodes to a chain
\* made by a merge
C16_Witness ==
  /\ last.op = "close" /\ last.closed
  /\ counter < iterations - 1
  /\ input[last.chain].size < last.size
  /\ chain[last.chain].size = Nr

SameNodes(c, d) == c.r = d.r /\ c.size = d.size

C18_DebugFlagDoesNotAffectResult ==
  [][/\ (sim # "free" /\ last'.op \in {"merge", "advance"}) => ScanStepWith(~debug)
     /\ (sim # "free" /\ last'.op = "pass_end") => FinishPassWith(~debug)
     /\ debug' = debug
     /\ ~debug => state_counter' = 0]_vars

\* a run with the debug flag set has drawn its images and merged two chains
C18_Witness ==
  /\ debug
  /\ last.op = "merge"
  /\ state_counter > ChecksBeforeMerge


\* the ids of the live chains are pairwise different indices of M, and the
\* entries of M at the ids of two live chains are those of the matrix
\* computed anew from the live chains
RowsAligned ==
  /\ \A h, g \in Range(l_ch_s) : chain[h].id = chain[g].id => h = g
  /\ \A h \in Range(l_ch_s) : chain[h].id \in DOMAIN M
  /\ \A anew \in {compute_intersection_matrix(chain, Range(l_ch_s))} :
       \A h, g \in Range(l_ch_s) :
          M[chain[h].id][chain[g].id] = anew[chain[h].id][chain[g].id]

\* the rows of M that belong to no live chain: the row of the border chain
\* while the border chain is held back
RowsHeldBack == IF BorderH \in Range(l_ch_s) THEN 0 ELSE 1

RaysOf(nodes) == {n[1] : n \in nodes}

\* two chains own nodes on at least one common ray
ShareRay(c, d) == Dom(c) \cap Dom(d) # {}

\* C20: in every reachable state and for every two live chains i and j,
\* M[i.id][j.id] = 1 exactly when the two chains own nodes on a common ray;
\* after a merge the row of the merged ch_j is 1 exactly for the chains that
\* share a ray with the old ch_j, with the old ch_k or with an interpolated
\* node
C20_MatrixIsRaySharing ==
  /\ \A h, g \in Range(l_ch_s) :
        M[chain[h].id][chain[g].id] = 1 <=> ShareRay(chain[h], chain[g])
  /\ Merged =>
        \A interpolated \in {Dom(chain[last.j]) \ (RaysOf(last.j_nodes) \cup RaysOf(last.k_nodes))} :
        \A g \in Range(l_ch_s) \ {last.j} :
           M[chain[last.j].id][chain[g].id] = 1
             <=> \/ RaysOf(last.j_nodes) \cap Dom(chain[g]) # {}
                 \/ RaysOf(last.k_nodes) \cap Dom(chain[g]) # {}
                 \/ interpolated \cap Dom(chain[g]) # {}

\* a merge has interpolated a node on a ray of a chain that shared no ray
\* with ch_j or with ch_k, and the row of the merged ch_j has a 1 for it
C20_Witness ==
  /\ Merged
  /\ \E g \in Range(l_ch_s) \ {last.j} :
        /\ RaysOf(last.j_nodes \cup last.k_nodes) \cap Dom(chain[g]) = {}
        /\ M[chain[last.j].id][chain[g].id] = 1


\* the driver has returned none: the while loop of the pass has ended
DriverTerminal == last.op = "select" /\ ~last.found

\* the sequence s is the list L read once from some position on, cyclically
IsLapOf(s, L) ==
  /\ Len(s) = Len(L)
  /\ Len(L) > 0 =>
        \E first \in DOMAIN L :
          \A p \in DOMAIN s : s[p] = L[((first - 1 + p - 1) % Len(L)) + 1]

\* with the chain S as support chain, no chain of the two candidate lists
\* finds a chain to merge with when the similarity test answers as the
\* regime says
NoMergeWith(S) ==
  \A nb \in {neighbourhood_size_table[counter + 1]} :
  \A v \in {find_visible_chains(chain, l_ch_s, S)} :
  \A loc \in {"inwards", "outwards"} :
  \A cands \in {IF loc = "inwards" THEN v[2] ELSE v[1]} :
  \A acc \in Answers(sim, Queries(chain, nb, cands, S)) :
  \A j \in Range(cands) :
  \A found \in {find_closest(chain, l_ch_s, M, nb, acc, j, cands,
                             find_non_intersection(chain, M, cands, j), S, loc)} :
    found[2] = "none" \/ found[1] = j

\* C21: when the driver returns none in a pass the state is a merge fixed
\* point: since the last merge every live chain has been the support chain
\* exactly once, in the order of the list, and (the similarity test giving
\* the same answers again) no chain finds a chain to merge with under the
\* thresholds of the pass, whatever live chain is the support chain
C21_TerminalIsMergeFixedPoint ==
  DriverTerminal =>
    /\ IsLapOf(supports, l_ch_s)
    /\ sim # "free" => \A S \in Range(l_ch_s) : NoMergeWith(S)

\* the driver has returned none after a merge and a full lap of the chains
\* that are left
C21_Witness ==
  /\ DriverTerminal
  /\ Len(l_ch_s) < NumArcs + 1
  /\ Len(supports) = Len(l_ch_s)
  /\ sim = "accept"


\* the chain that follows h in the list L, cyclically
Following(L, h) == L[(IndexOf(L, h) % Len(L)) + 1]

\* the list L is in descending order of size
SortedBySize(L) ==
  \A p, q \in DOMAIN L : p < q => chain[L[p]].size >= chain[L[q]].size

\* the chains of the round that ended: the support chain and its candidates
RoundChains == {last.previous} \cup Range(l_s_outward) \cup Range(l_s_inward)

\* C22: the selection rule of find_support_chain.  The first call returns
\* the chain at index 0; after a round that lowered the chain count the live
\* list is sorted by descending size and the support chain is the largest
\* chain among the previous one and its outward and inward lists when that
\* chain is strictly larger than the previous one, otherwise the chain that
\* follows the previous one in the sorted list, cyclically; after a round
\* without change it is the chain that follows the previous one; the chain
\* returned is always in the live list
C22_SupportSelectionRule ==
  (last.op = "select" /\ last.found) =>
    /\ ch_i \in Range(l_ch_s)
    /\ last.previous = None => ch_i = l_ch_s[1]
    /\ (last.previous # None /\ last.merged) =>
          /\ SortedBySize(l_ch_s)
          /\ IF \E h \in RoundChains : chain[h].size > chain[last.previous].size
               THEN /\ ch_i \in RoundChains
                    /\ \A h \in RoundChains : chain[ch_i].size >= chain[h].size
               ELSE ch_i = Following(l_ch_s, last.previous)
    /\ (last.previous # None /\ ~last.merged) => ch_i = Following(l_ch_s, last.previous)

\* after a round with a merge the support chain is a candidate that has
\* become larger than the previous support chain, and not the chain that
\* follows it
C22_Witness ==
  /\ last.op = "select"
  /\ last.found
  /\ last.previous # None
  /\ last.merged
  /\ chain[ch_i].size > chain[last.previous].size
  /\ ch_i # Following(l_ch_s, last.previous)


\* C23: in the candidate loop the pointer designates the merged ch_j again
\* after a merge, its index being that of ch_j in the list that has lost
\* ch_k, and the element right after ch_j after an attempt without merge;
\* every chain before the pointer has been attempted, and when the loop ends
\* every chain still in the candidate list has been attempted
C23_PointerSkipsNoCandidate ==
  /\ Merged => (j_pointer < Len(Candidates) /\ Candidates[j_pointer + 1] = last.j)
  /\ last.op = "advance" => (j_pointer >= 1 /\ Candidates[j_pointer] = last.j)
  /\ pc = "scan" => \A p \in 1 .. j_pointer : p \in DOMAIN Candidates /\ Candidates[p] \in attempted
  /\ last.op = "list_end" => Range(last.scanned) \subseteq last.attempted

\* a merge has taken a chain that stood before ch_j out of the candidate
\* list, and the pointer has moved back with ch_j
C23_Witness ==
  /\ Merged
  /\ Candidates[j_pointer + 1] = last.j
  /\ \E p \in 1 .. j_pointer : Candidates[p] \in attempted
  /\ last.k \in attempted


\* the live chains other than the support chain with an inward reference to
\* it, and those with an outward reference to it
SeesInward(S) ==
  {h \in Range(l_ch_s) \ {S} : chain[h].A_inward = S \/ chain[h].B_inward = S}
SeesOutward(S) ==
  {h \in Range(l_ch_s) \ {S} : chain[h].A_outward = S \/ chain[h].B_outward = S}

\* C24: find_visible_chains returns an outward list, of chains one of whose
\* inward references is ch_i, and an inward list, of chains one of whose
\* outward references is ch_i; the two lists are disjoint, have no chain
\* twice and never hold ch_i, and a chain that qualifies for both is in the
\* inward list only
C24_VisibleListsDisjoint ==
  last.op = "visible" =>
    /\ Range(l_s_inward) = SeesOutward(ch_i)
    /\ Range(l_s_outward) = SeesInward(ch_i) \ SeesOutward(ch_i)
    /\ Range(l_s_inward) \cap Range(l_s_outward) = {}
    /\ Len(l_s_inward) = Cardinality(Range(l_s_inward))
    /\ Len(l_s_outward) = Cardinality(Range(l_s_outward))
    /\ ch_i \notin Range(l_s_inward) \cup Range(l_s_outward)

\* a chain has the support chain inward of one endpoint and outward of the
\* other, and is in the inward list
C24_Witness ==
  /\ last.op = "visible"
  /\ SeesInward(ch_i) \cap SeesOutward(ch_i) # {}
  /\ l_s_outward # <<>>


\* the four neighbour references of a chain
Refs(c) == <<c.A_inward, c.A_outward, c.B_inward, c.B_outward>>

\* a merge or a closing has just been completed
MergedOrClosed == Merged \/ (last.op = "close" /\ last.closed)

\* C25: after every completed merge and every completed closing each of the
\* four neighbour references of every live chain is none or a chain of the
\* live list other than the chain itself; no reference designates the
\* absorbed ch_k, and the references of the merged ch_j are those
\* update_chain_neighbourhood computes from the chains left after the merge
C25_ReferencesAreLive ==
  /\ MergedOrClosed =>
        \A h \in Range(l_ch_s) : \A p \in 1 .. 4 :
           Refs(chain[h])[p] = None \/ Refs(chain[h])[p] \in Range(l_ch_s) \ {h}
  /\ Merged =>
        /\ \A h \in Range(l_ch_s) : \A p \in 1 .. 4 : Refs(chain[h])[p] # last.k
        /\ Refs(chain[last.j])
             = Refs(update_chain_neighbourhood(chain, l_ch_s, <<last.j>>)[last.j])

\* a merge has absorbed a chain that another live chain referred to
C25_Witness ==
  /\ Merged
  /\ \E h \in Range(l_ch_s) \ {last.j} : \E p \in 1 .. 4 : Refs(chain[h])[p] = last.j
  /\ \E p \in 1 .. 4 : Refs(chain[last.j])[p] # None


\* the chain that has just taken interpolated nodes, and those nodes
Grown == IF Merged THEN last.j ELSE last.chain
NewNodes ==
  Range(NodeList(chain[Grown]))
    \ (IF Merged THEN last.j_nodes \cup last.k_nodes ELSE last.before)

\* the reference of the chain g, at its endpoint on the ray a, inward
\* (dir = -1) or outward (dir = 1); endpoint A when both endpoints are on
\* the ray
RefOnRay(g, a, dir) ==
  IF chain[g].extA = a
    THEN (IF dir < 0 THEN chain[g].A_inward ELSE chain[g].A_outward)
    ELSE (IF dir < 0 THEN chain[g].B_inward ELSE chain[g].B_outward)

\* the chain next to the node n on its ray, farther from the center (dir = 1)
\* or closer to it (dir = -1), has an endpoint there
EndsNextTo(n, dir) ==
  \E g \in {NextOnRay(chain, l_ch_s, n[1], n[2], dir)} :
     g # None /\ n[1] \in {chain[g].extA, chain[g].extB}

\* C26: when an interpolated node of ch_j is registered, the radial
\* references on its ray are repaired in both directions: the chain whose
\* endpoint is the node next farther from the center has its inward
\* reference at that endpoint set to ch_j, and the chain whose endpoint is
\* the node next closer to the center has its outward reference at that
\* endpoint set to ch_j
C26_RadialPointersRepairedBothWays ==
  MergedOrClosed =>
    \A n \in NewNodes : \A dir \in {-1, 1} :
       EndsNextTo(n, dir) =>
         RefOnRay(NextOnRay(chain, l_ch_s, n[1], n[2], dir), n[1], 0 - dir) = Grown


\* connectivity_goodness_condition for ch_j, a candidate and an endpoint in
\* the current scan, the similarity test accepting the pairs of acc
Goodness(acc, j, cand, endpoint) ==
  connectivity_goodness_condition(chain, l_ch_s, acc, j, cand, ch_i, endpoint)

\* every ray between the endpoint of ch_j and the opposite endpoint of the
\* candidate is a ray of the support chain of the scan
Bridgeable(j, cand, endpoint) ==
  \A a \in Range(compute_interpolation_domain(endpoint, EndAngle(chain[j], endpoint),
                                               EndAngle(chain[cand], Opposite(endpoint)))) :
     chain[ch_i].r[a] # NoNode

\* C27: every executed merge is bridgeable by its support chain: every ray
\* of the interpolation domain between the endpoint of ch_j and the opposite
\* endpoint of the candidate is a ray on which the support chain has a node
\* (and these are the rays of the interpolated nodes); a candidate that
\* fails the size test or this coverage test is answered (false, -1)
\* whatever the similarity test would say
C27_MergeBridgeableBySupport ==
  /\ Merged =>
        /\ last.domain \subseteq Dom(chain[last.support])
        /\ RaysOf(NewNodes) = last.domain
  /\ pc = "scan" =>
        \A j, cand \in Range(Candidates) : \A endpoint \in {"A", "B"} :
           (j # cand /\ ~(chain[j].size + chain[cand].size <= Nr
                           /\ Bridgeable(j, cand, endpoint)))
             => \A acc \in {{}, {<<j, cand, endpoint>>}} :
                   Goodness(acc, j, cand, endpoint) = <<FALSE, NoDistance>>

\* a merge with interpolated nodes under a support chain that is not on
\* every ray
C27_Witness ==
  /\ Merged
  /\ last.domain # {}
  /\ chain[last.support].size < Nr

\* the neighbourhood size of the current pass
CurrentNeighbourhood == neighbourhood_size_table[counter + 1]

\* the sorted neighbourhood of an endpoint of a chain of the scan
Neighbourhood(j, endpoint) ==
  get_chains_in_neighbourhood(chain, CurrentNeighbourhood,
    find_non_intersection(chain, M, Candidates, j), j, ch_i, endpoint, location)

\* what get_closest_chain returns for that endpoint
ClosestOf(acc, j, endpoint) ==
  get_closest_chain(chain, l_ch_s, M, CurrentNeighbourhood, acc, j,
    find_non_intersection(chain, M, Candidates, j), ch_i, location, endpoint)

\* answers of the similarity test to the queries of the scan: those of the
\* regime of the run and, when it leaves the test free, all accepted, none,
\* a single one, all but one
SampleAnswers ==
  With(Queries(chain, CurrentNeighbourhood, Candidates, ch_i), LAMBDA queries :
    IF sim # "free" THEN Answers(sim, queries)
    ELSE {queries, {}} \cup {{q} : q \in queries} \cup {queries \ {q} : q \in queries})

\* the answers of connectivity_goodness_condition for ch_j and the chains of
\* the sorted neighbourhood, in its order
Verdicts(acc, j, endpoint, sorted) ==
  [p \in DOMAIN sorted |-> Goodness(acc, j, sorted[p], endpoint)]

\* the places of the sorted neighbourhood, other than the candidate's, of the
\* chains that intersect the candidate, pass the test and are strictly
\* closer to ch_j than it
Rivals(sorted, verdict, first) ==
  {p \in DOMAIN sorted :
     /\ sorted[p] # sorted[first]
     /\ M[chain[sorted[first]].id][chain[sorted[p]].id] = 1
     /\ verdict[p][1]
     /\ verdict[p][2] < verdict[first][2]}

\* the first passing place
FirstPassing(verdict) ==
  CHOOSE p \in DOMAIN verdict : verdict[p][1] /\ \A q \in 1 .. (p - 1) : ~verdict[q][1]

\* C28: get_closest_chain returns none when no chain of the sorted
\* neighbourhood passes connectivity_goodness_condition; otherwise, with the
\* first passing chain of the sorted neighbourhood as candidate, it returns
\* the candidate unless a chain of the neighbourhood that intersects the
\* candidate also passes with a strictly smaller distance, and then it
\* returns such a chain of smallest distance
C28_ClosestChainRule ==
  pc = "scan" =>
    \A j \in Range(Candidates) : \A endpoint \in {"A", "B"} :
    \A sorted \in {Neighbourhood(j, endpoint)} : \A acc \in SampleAnswers :
    \A verdict \in {Verdicts(acc, j, endpoint, sorted)} :
    \A res \in {ClosestOf(acc, j, endpoint)} :
      IF \A p \in DOMAIN sorted : ~verdict[p][1]
        THEN res = None
        ELSE \A first \in {FirstPassing(verdict)} :
             \A rivals \in {Rivals(sorted, verdict, first)} :
               IF rivals = {} THEN res = sorted[first]
               ELSE \E p \in rivals :
                       /\ res = sorted[p]
                       /\ \A q \in rivals : verdict[p][2] <= verdict[q][2]

\* a scan in which the first passing chain of a neighbourhood is intersected
\* by a passing chain that is closer to ch_j, every query being accepted
C28_Witness ==
  /\ pc = "scan"
  /\ \E j \in Range(Candidates) : \E endpoint \in {"A", "B"} :
     \E sorted \in {Neighbourhood(j, endpoint)} :
     \E acc \in {Queries(chain, CurrentNeighbourhood, Candidates, ch_i)} :
     \E verdict \in {Verdicts(acc, j, endpoint, sorted)} :
        /\ \E p \in DOMAIN sorted : verdict[p][1]
        /\ Rivals(sorted, verdict, FirstPassing(verdict)) # {}
        /\ ClosestOf(acc, j, endpoint) # sorted[FirstPassing(verdict)]

\* what the search of the last iteration of the candidate loop gave at an
\* endpoint of ch_j
Yielded(endpoint) == IF endpoint = "A" THEN last.search.A.ch_k ELSE last.search.B.ch_k

\* C29: of the candidates the two endpoint searches of an iteration yield,
\* find_closest selects none when there is none, the only one with its
\* endpoint when there is one, and of two the one whose distance, as
\* distance_between_border gives it, is the larger, that of endpoint A when
\* the distances are equal; the selected chain is the one merged
C29_EndpointSelection ==
  [][ /\ last'.op = "advance" => Yielded("A")' = None /\ Yielded("B")' = None
      /\ last'.op = "merge" =>
            \E a \in {Yielded("A")'}, b \in {Yielded("B")'} :
              /\ a # None \/ b # None
              /\ (a # None /\ b = None) => last'.k = a /\ last'.endpoint = "A"
              /\ (a = None /\ b # None) => last'.k = b /\ last'.endpoint = "B"
              /\ (a # None /\ b # None) =>
                    \E d_a \in {distance_between_border(chain, last'.j, a, "A")},
                       d_b \in {distance_between_border(chain, last'.j, b, "B")} :
                      /\ d_a >= d_b => last'.k = a /\ last'.endpoint = "A"
                      /\ d_a < d_b => last'.k = b /\ last'.endpoint = "B" ]_vars

\* a merge after both endpoint searches yielded a candidate
C29_Witness ==
  /\ Merged
  /\ Yielded("A") # None
  /\ Yielded("B") # None

\* the nodes a chain lists
NodesListed(h) == {<<a, chain[h].r[a]>> : a \in Dom(chain[h])}

\* C30: in every reachable state each node belongs to exactly one live
\* chain: no two live chains list a common node or carry the same id (the id
\* the nodes of a chain carry designates one live chain), every live chain
\* lists each of its nodes once, and the nodes of the state are the nodes the
\* live chains list; the chain a merge leaves lists the nodes ch_j and ch_k
\* listed and one interpolated node for every ray of the interpolation
\* domain, and nothing else
C30_EachNodeInOneLiveChain ==
  /\ \A h, g \in Range(l_ch_s) : \A a \in Angles :
        h # g /\ chain[h].r[a] # NoNode => chain[h].r[a] # chain[g].r[a]
  /\ \A h, g \in Range(l_ch_s) : h # g => chain[h].id # chain[g].id
  /\ \A h \in Range(l_ch_s) : chain[h].size = Cardinality(Dom(chain[h]))
  /\ \A n \in l_nodes_s : \E h \in Range(l_ch_s) : chain[h].r[n[1]] = n[2]
  /\ \A h \in Range(l_ch_s) : NodesListed(h) \subseteq l_nodes_s
  /\ Merged =>
        /\ last.j_nodes \cup last.k_nodes \subseteq NodesListed(last.j)
        /\ RaysOf(NodesListed(last.j) \ (last.j_nodes \cup last.k_nodes)) = last.domain
        /\ Cardinality(NodesListed(last.j))
             = Cardinality(last.j_nodes) + Cardinality(last.k_nodes)
                 + Cardinality(last.domain)

\* a merge that interpolated nodes, with another chain still live
C30_Witness ==
  /\ Merged
  /\ last.domain # {}
  /\ last.k_nodes # {}
  /\ Len(l_ch_s) > 2

\* C31: the distance select_closest_chain compares for an endpoint of ch_j is
\* the distance from that endpoint of ch_j to the opposite endpoint of the
\* candidate the search yielded: from ch_j.extA to the candidate's extB for
\* endpoint A, from ch_j.extB to the candidate's extA for endpoint B
C31_DistanceFromOwnEndpoint ==
  [][ last'.op \in {"merge", "advance"} =>
        \A endpoint \in {"A", "B"} : \A cand \in {Yielded(endpoint)'} :
           cand # None =>
             distance_between_border(chain, last'.j, cand, endpoint)
               = EndDist(chain[last'.j], endpoint, chain[cand], Opposite(endpoint)) ]_vars

\* the rows of M that are the row of no live chain
RowsOfNoLiveChain == {x \in DOMAIN M : \A h \in Range(l_ch_s) : chain[h].id # x}

\* C32: at the start of the last pass the border chain is given the id
\* len(non-border chains), and this id is the index of the border chain's own
\* row of M: the one row that the merges of the passes before, which
\* renumber the live chains only, have left to no live chain, whatever id
\* the border chain carried in the input
C32_BorderIdDesignatesBorderRow ==
  [][ (pc = "start" /\ IsLastRow(counter) /\ pc' = "select") =>
        /\ chain'[BorderH].id = Len(l_ch_s)
        /\ RowsOfNoLiveChain = {chain'[BorderH].id}
        /\ M' = M ]_vars

\* C33: in every executed merge the absorbed chain ch_k was a chain of the
\* list of candidates being scanned and of the live list, and is neither ch_j
\* nor the support chain of the round, which is still live after the merge;
\* and the chains of the inward and outward lists are live chains at every
\* moment (those of the lists handed to find_support_chain included)
C33_AbsorbedChainIsLiveCandidate ==
  /\ Merged =>
        /\ last.k \in last.cands
        /\ last.k \in last.live
        /\ last.j \in last.cands
        /\ last.k # last.j
        /\ last.k # last.support
        /\ last.support = ch_i
        /\ ch_i \in Range(l_ch_s)
        /\ last.k \notin Range(l_ch_s)
        /\ last.j \in Range(l_ch_s)
  /\ Range(l_s_inward) \cup Range(l_s_outward) \subseteq Range(l_ch_s)

\* find_support_chain is about to be called with two lists that are not
\* empty, after a round in which a chain was absorbed
C33_Witness ==
  /\ pc = "select"
  /\ ch_i # None
  /\ Len(l_s_inward) > 0
  /\ Len(l_s_outward) > 0
  /\ Len(l_ch_s) < size_l_chain_init

====
